---- MODULE Spec2Model ----
(***************************************************************************)
(* The scripts of the JavaScript learning path, run one file at a time by  *)
(* a small abstract machine for the language subset they use: parsing with *)
(* early errors, hoisting, environment records, try/catch, functions, the  *)
(* timer queue of the event loop, an object heap with spread/rest/clone,   *)
(* and the iterator protocol of for...of.                                  *)
(*                                                                         *)
(* Every script is written down as data (a sequence of instructions, one   *)
(* per source statement, built with combinators that mirror the source's   *)
(* nesting) and the actions interpret it.  Statements of a file that only  *)
(* print literals and touch no binding used later are not listed.          *)
(***************************************************************************)
EXTENDS Integers, Sequences, FiniteSets, TLC

\* Granularity of the wall clock while code runs, and the latest time up to
\* which running code is followed (sleeping until a timer is due is a jump).
TickMs == 500
MaxClock == 1000

\* The largest number whose decimal numeral is recognised when a string is
\* converted to a number (the scripts convert "0", "2", "12" and "42").
MaxNumeral == 50

----------------------------------------------------------------------------
(* Values *)

Undef == [t |-> "undefined", n |-> 0, s |-> ""]
Null == [t |-> "null", n |-> 0, s |-> ""]
Num(n) == [t |-> "number", n |-> n, s |-> ""]
Str(s) == [t |-> "string", n |-> 0, s |-> s]
Bool(b) == [t |-> "boolean", n |-> IF b THEN 1 ELSE 0, s |-> ""]
Ref(a) == [t |-> "object", n |-> a, s |-> ""]
SymV(id, desc) == [t |-> "symbol", n |-> id, s |-> desc]
Fn(ip, name) == [t |-> "function", n |-> ip, s |-> name]
Err(msg) == [t |-> "error", n |-> 0, s |-> msg]

\* The errors the scripts provoke (type and e.message, without the name)
TDZError == Err("ReferenceError: Cannot access before initialization")
NotDefinedError == Err("ReferenceError: is not defined")
ConstAssignError == Err("TypeError: Assignment to constant variable.")
NotFunctionError == Err("TypeError: is not a function")
NotIterableError == Err("TypeError: is not iterable")
NullPropertyError == Err("TypeError: Cannot read properties of undefined")

\* Property keys: strings, or symbols (identified by the Symbol() call that made them)
K(name) == [sym |-> FALSE, id |-> 0, name |-> name]
SymKey(v) == [sym |-> TRUE, id |-> v.n, name |-> v.s]

Digit == <<"0", "1", "2", "3", "4", "5", "6", "7", "8", "9">>

RECURSIVE NumberToString(_)
NumberToString(n) ==
  IF n < 10 THEN Digit[n + 1]
  ELSE NumberToString(n \div 10) \o Digit[(n % 10) + 1]

ToPropertyKey(v) ==
  IF v.t = "symbol" THEN SymKey(v)
  ELSE IF v.t = "string" THEN K(v.s)
  ELSE K(NumberToString(v.n))

----------------------------------------------------------------------------
(* The heap: objects are ordered lists of own properties *)

Prop(k, v) == [key |-> k, val |-> v, enum |-> TRUE, w |-> TRUE]
NewObject(isArr, props) == [arr |-> isArr, frozen |-> FALSE, props |-> props]

FindProp(props, k) ==
  LET I == {i \in 1..Len(props) : props[i].key = k}
  IN IF I = {} THEN 0 ELSE CHOOSE i \in I : TRUE

\* [[Get]] (own properties; no modelled object inherits a data property)
Get(h, a, k) ==
  LET i == FindProp(h[a].props, k)
  IN IF i = 0 THEN Undef ELSE h[a].props[i].val

\* [[Set]] in sloppy mode: a write to a read-only property or to a
\* non-extensible object is dropped without an error
PutValue(h, a, k, v) ==
  LET i == FindProp(h[a].props, k)
  IN IF i # 0
     THEN IF h[a].props[i].w THEN [h EXCEPT ![a].props[i].val = v] ELSE h
     ELSE IF h[a].frozen THEN h
     ELSE [h EXCEPT ![a].props = Append(@, Prop(k, v))]

\* CreateDataProperty on a property list under construction
CreateDataProperty(props, k, v) ==
  LET i == FindProp(props, k)
  IN IF i # 0 THEN [props EXCEPT ![i].val = v] ELSE Append(props, Prop(k, v))

\* [[OwnPropertyKeys]]: string keys in creation order, then symbol keys
OwnPropertyKeys(o) ==
  SelectSeq(o.props, LAMBDA p : ~p.key.sym) \o SelectSeq(o.props, LAMBDA p : p.key.sym)

RECURSIVE CopyFrom(_, _, _, _)
CopyFrom(target, keys, i, excluded) ==
  IF i > Len(keys) THEN target
  ELSE CopyFrom(IF keys[i].key \notin excluded /\ keys[i].enum
                THEN CreateDataProperty(target, keys[i].key, keys[i].val)
                ELSE target,
                keys, i + 1, excluded)

\* CopyDataProperties(target, source, excludedItems): what `{ ...source }` and
\* the rest element of an object pattern do
CopyDataProperties(target, o, excluded) ==
  CopyFrom(target, OwnPropertyKeys(o), 1, excluded)

RECURSIVE AssignFrom(_, _, _, _)
AssignFrom(h, a, keys, i) ==
  IF i > Len(keys) THEN h
  ELSE AssignFrom(IF keys[i].enum THEN PutValue(h, a, keys[i].key, keys[i].val) ELSE h,
                  a, keys, i + 1)

\* Object.assign(target, source)
ObjectAssign(h, a, src) == AssignFrom(h, a, OwnPropertyKeys(h[src]), 1)

\* Object.defineProperty(obj, key, { value, enumerable }): absent attributes are false
DefineProperty(h, a, k, v, enumerable) ==
  [h EXCEPT ![a].props = Append(@, [key |-> k, val |-> v, enum |-> enumerable, w |-> FALSE])]

\* Object.freeze(obj)
Freeze(h, a) ==
  [h EXCEPT ![a].frozen = TRUE,
            ![a].props = [i \in 1..Len(@) |-> [@[i] EXCEPT !.w = FALSE]]]

\* Array.prototype.push
ArrayPush(h, a, v) == PutValue(h, a, K(NumberToString(Len(h[a].props))), v)

\* (variant: a clone that copies the top level only)
ShallowClone(h, v) ==
  IF v.t # "object" THEN [h |-> h, v |-> v]
  ELSE [h |-> Append(h, NewObject(h[v.n].arr, h[v.n].props)), v |-> Ref(Len(h) + 1)]

RECURSIVE StructuredClone(_, _), CloneProps(_, _, _, _)
\* structuredClone(value): a fresh object for every object reached, holding the
\* own enumerable string-keyed properties
StructuredClone(h, v) ==
  IF v.t # "object" THEN [h |-> h, v |-> v]
  ELSE LET o == h[v.n]
           keys == SelectSeq(o.props, LAMBDA p : ~p.key.sym /\ p.enum)
           R == CloneProps(h, keys, 1, <<>>)
       IN [h |-> Append(R.h, NewObject(o.arr, R.props)), v |-> Ref(Len(R.h) + 1)]
CloneProps(h, keys, i, acc) ==
  IF i > Len(keys) THEN [h |-> h, props |-> acc]
  ELSE LET C == StructuredClone(h, keys[i].val)
       IN CloneProps(C.h, keys, i + 1, Append(acc, Prop(keys[i].key, C.v)))

----------------------------------------------------------------------------
(* Environment records: envs[id] = [parent, b], b maps names to bindings *)

Binding(kind, init, val) == [kind |-> kind, init |-> init, val |-> val]

RECURSIVE ResolveBinding(_, _, _)
\* The nearest environment on the scope chain from c that binds name; 0 if none
ResolveBinding(E, c, name) ==
  IF c = 0 THEN 0
  ELSE IF name \in DOMAIN E[c].b THEN c
  ELSE ResolveBinding(E, E[c].parent, name)

----------------------------------------------------------------------------
(* Expressions *)

Lit(v) == [k |-> "lit", v |-> v]
Id(name) == [k |-> "id", name |-> name]
Idx(o, key) == [k |-> "member", obj |-> o, key |-> key]
Dot(o, name) == Idx(o, Lit(Str(name)))
Bin(op, l, r) == [k |-> "bin", op |-> op, l |-> l, r |-> r]
Cond(c, a, b) == [k |-> "cond", test |-> c, then |-> a, else |-> b]
SymbolCall(id, desc) == [k |-> "symbol", id |-> id, desc |-> desc]
ObjLit(items) == [k |-> "object", items |-> items]
ArrLit(items) == [k |-> "array", items |-> items]
P(name, e) == [k |-> "prop", key |-> Lit(Str(name)), e |-> e]
PC(key, e) == [k |-> "prop", key |-> key, e |-> e]
Spread(e) == [k |-> "spread", e |-> e]
El(e) == [k |-> "elem", e |-> e]
CallB(f, args) == [k |-> "builtin", f |-> f, args |-> args]
MapCall(arr, param, body) == [k |-> "map", arr |-> arr, param |-> param, body |-> body]

Ok(v, h) == [ok |-> TRUE, v |-> v, h |-> h]
Thrown(v, h) == [ok |-> FALSE, v |-> v, h |-> h]

NoLocals == [x \in {} |-> Undef]

\* Elements of an array object, in index order
Elements(o) == [i \in 1..Len(o.props) |-> o.props[i].val]
ArrayOf(vals) == NewObject(TRUE, [i \in 1..Len(vals) |-> Prop(K(NumberToString(i - 1)), vals[i])])

\* NaN, the number that is not equal to itself
NaN == [t |-> "number", n |-> 0, s |-> "NaN"]
IsNaN(v) == v.t = "number" /\ v.s = "NaN"

\* IsStrictlyEqual: without conversion; different types are never equal
StrictEquals(a, b) == a.t = b.t /\ a.n = b.n /\ a.s = b.s /\ ~IsNaN(a)

Not(e) == [k |-> "not", e |-> e]

\* ToBoolean
ToBoolean(v) ==
  CASE v.t \in {"undefined", "null"} -> FALSE
    [] v.t = "boolean" -> v.n = 1
    [] v.t = "number" -> ~IsNaN(v) /\ ~(v.n = 0 /\ v.s = "")
    [] v.t = "string" -> v.s # ""
    [] OTHER -> TRUE

\* the decimal digits of a natural number, most significant first
RECURSIVE DigitsOf(_)
DigitsOf(n) == IF n < 10 THEN <<n>> ELSE Append(DigitsOf(n \div 10), n % 10)

\* StringToNumber for the strings the scripts compare: the empty string is 0,
\* a decimal numeral is its number, anything else is NaN
StringToNumber(str) ==
  IF str = "" THEN Num(0)
  ELSE IF \E n \in 0..MaxNumeral : NumberToString(n) = str
  THEN Num(CHOOSE n \in 0..MaxNumeral : NumberToString(n) = str)
  ELSE NaN

\* ToNumber of a primitive
ToNumber(v) ==
  CASE v.t = "undefined" -> NaN
    [] v.t = "null" -> Num(0)
    [] v.t = "boolean" -> Num(v.n)
    [] v.t = "string" -> StringToNumber(v.s)
    [] OTHER -> v

RECURSIVE ToStringOf(_, _), Join(_, _, _)
\* ToString; an array gives its elements' strings joined by commas, null and
\* undefined elements giving the empty string (Array.prototype.toString)
ToStringOf(h, v) ==
  CASE v.t = "string" -> v.s
    [] v.t = "number" -> IF v.s # "" THEN v.s ELSE NumberToString(v.n)
    [] v.t = "boolean" -> IF v.n = 1 THEN "true" ELSE "false"
    [] v.t = "null" -> "null"
    [] v.t = "undefined" -> "undefined"
    [] v.t = "object" -> IF h[v.n].arr THEN Join(h, Elements(h[v.n]), 1)
                         ELSE "[object Object]"
Join(h, vals, i) ==
  IF i > Len(vals) THEN ""
  ELSE (IF vals[i].t \in {"undefined", "null"} THEN "" ELSE ToStringOf(h, vals[i]))
         \o (IF i < Len(vals) THEN "," ELSE "")
         \o Join(h, vals, i + 1)

\* ToPrimitive: an object's valueOf is the object itself, so its string is taken
ToPrimitive(h, v) == IF v.t = "object" THEN Str(ToStringOf(h, v)) ELSE v

\* (variant: == without any conversion)
LooselyEqualWithoutCoercion(h, x, y) ==
  StrictEquals(x, y) \/ (x.t \in {"undefined", "null"} /\ y.t \in {"undefined", "null"})

RECURSIVE IsLooselyEqual(_, _, _)
\* IsLooselyEqual(x, y), the algorithm of ==
IsLooselyEqual(h, x, y) ==
  IF x.t = y.t THEN StrictEquals(x, y)
  ELSE IF x.t \in {"undefined", "null"} /\ y.t \in {"undefined", "null"} THEN TRUE
  ELSE IF x.t \in {"undefined", "null"} \/ y.t \in {"undefined", "null"} THEN FALSE
  ELSE IF x.t = "number" /\ y.t = "string" THEN IsLooselyEqual(h, x, ToNumber(y))
  ELSE IF x.t = "string" /\ y.t = "number" THEN IsLooselyEqual(h, ToNumber(x), y)
  ELSE IF x.t = "boolean" THEN IsLooselyEqual(h, ToNumber(x), y)
  ELSE IF y.t = "boolean" THEN IsLooselyEqual(h, x, ToNumber(y))
  ELSE IF x.t \in {"string", "number", "symbol"} /\ y.t = "object"
  THEN IsLooselyEqual(h, x, ToPrimitive(h, y))
  ELSE IF x.t = "object" /\ y.t \in {"string", "number", "symbol"}
  THEN IsLooselyEqual(h, ToPrimitive(h, x), y)
  ELSE FALSE

\* sequences of digits in dictionary order
RECURSIVE LexLess(_, _)
LexLess(a, b) ==
  IF b = <<>> THEN FALSE
  ELSE IF a = <<>> THEN TRUE
  ELSE IF Head(a) # Head(b) THEN Head(a) < Head(b)
  ELSE LexLess(Tail(a), Tail(b))

\* (variant: the relational operators leave null unconverted)
IsLessThanNullUnconverted(h, x, y) ==
  IF x.t = "null" \/ y.t = "null" THEN "undefined"
  ELSE IF x.n < y.n THEN "true" ELSE "false"

\* IsLessThan(x, y): "true", "false" or "undefined" (a NaN is involved); two
\* strings (numerals, in the scripts) compare in dictionary order, anything
\* else as numbers
IsLessThan(h, x, y) ==
  LET px == ToPrimitive(h, x)
      py == ToPrimitive(h, y)
  IN IF px.t = "string" /\ py.t = "string"
     THEN IF LexLess(DigitsOf(StringToNumber(px.s).n), DigitsOf(StringToNumber(py.s).n))
          THEN "true" ELSE "false"
     ELSE LET nx == ToNumber(px)
              ny == ToNumber(py)
          IN IF IsNaN(nx) \/ IsNaN(ny) THEN "undefined"
             ELSE IF nx.n < ny.n THEN "true" ELSE "false"

RECURSIVE Eval(_, _, _, _, _), EvalProps(_, _, _, _, _, _, _), EvalElems(_, _, _, _, _, _, _)
RECURSIVE EvalArgs(_, _, _, _, _, _, _), MapElems(_, _, _, _, _, _, _, _, _)

\* Reading an identifier: a binding that is declared but not yet initialised
\* (let/const before their declaration ran) throws
GetBindingValue(E, c, h, name) ==
  LET r == ResolveBinding(E, c, name)
  IN IF r = 0 THEN Thrown(NotDefinedError, h)
     ELSE IF ~E[r].b[name].init THEN Thrown(TDZError, h)
     ELSE Ok(E[r].b[name].val, h)

Builtin(f, a, h) ==
  CASE f = "Object.assign" -> Ok(a[1], ObjectAssign(h, a[1].n, a[2].n))
    [] f = "structuredClone" -> LET C == StructuredClone(h, a[1]) IN Ok(C.v, C.h)
    [] f = "Object.defineProperty" ->
         Ok(a[1], DefineProperty(h, a[1].n, ToPropertyKey(a[2]), a[3], a[4].n = 1))
    [] f = "Object.freeze" -> Ok(a[1], Freeze(h, a[1].n))
    [] f = "push" -> Ok(Num(Len(h[a[1].n].props) + 1), ArrayPush(h, a[1].n, a[2]))

Eval(e, E, c, h, loc) ==
  CASE e.k = "lit" -> Ok(e.v, h)
    [] e.k = "symbol" -> Ok(SymV(e.id, e.desc), h)
    [] e.k = "id" ->
         IF e.name \in DOMAIN loc THEN Ok(loc[e.name], h)
         ELSE GetBindingValue(E, c, h, e.name)
    [] e.k = "member" ->
         LET O == Eval(e.obj, E, c, h, loc)
         IN IF ~O.ok THEN O
            ELSE LET Ky == Eval(e.key, E, c, O.h, loc)
                 IN IF ~Ky.ok THEN Ky
                    ELSE IF O.v.t \in {"undefined", "null"} THEN Thrown(NullPropertyError, Ky.h)
                    ELSE IF O.v.t = "object"
                         THEN Ok(Get(Ky.h, O.v.n, ToPropertyKey(Ky.v)), Ky.h)
                    ELSE Ok(Undef, Ky.h)
    [] e.k = "bin" ->
         LET L == Eval(e.l, E, c, h, loc)
         IN IF ~L.ok THEN L
            ELSE LET R == Eval(e.r, E, c, L.h, loc)
                 IN IF ~R.ok THEN R
                    ELSE (CASE e.op = "+" -> Ok(Num(L.v.n + R.v.n), R.h)
                           [] e.op = "*" -> Ok(Num(L.v.n * R.v.n), R.h)
                           [] e.op = "<" -> Ok(Bool(IsLessThan(R.h, L.v, R.v) = "true"), R.h)
                           [] e.op = ">" -> Ok(Bool(IsLessThan(R.h, R.v, L.v) = "true"), R.h)
                           [] e.op = "<=" -> Ok(Bool(IsLessThan(R.h, R.v, L.v) = "false"), R.h)
                           [] e.op = ">=" -> Ok(Bool(IsLessThan(R.h, L.v, R.v) = "false"), R.h)
                           [] e.op = "==" -> Ok(Bool(IsLooselyEqual(R.h, L.v, R.v)), R.h)
                           [] e.op = "===" -> Ok(Bool(StrictEquals(L.v, R.v)), R.h))
    [] e.k = "not" ->
         LET V == Eval(e.e, E, c, h, loc)
         IN IF ~V.ok THEN V ELSE Ok(Bool(~ToBoolean(V.v)), V.h)
    [] e.k = "cond" ->
         LET T == Eval(e.test, E, c, h, loc)
         IN IF ~T.ok THEN T
            ELSE IF T.v.n = 1 THEN Eval(e.then, E, c, T.h, loc)
            ELSE Eval(e.else, E, c, T.h, loc)
    [] e.k = "object" ->
         LET R == EvalProps(e.items, 1, <<>>, E, c, h, loc)
         IN IF ~R.ok THEN R
            ELSE Ok(Ref(Len(R.h) + 1), Append(R.h, NewObject(FALSE, R.v)))
    [] e.k = "array" ->
         LET R == EvalElems(e.items, 1, <<>>, E, c, h, loc)
         IN IF ~R.ok THEN R
            ELSE Ok(Ref(Len(R.h) + 1), Append(R.h, ArrayOf(R.v)))
    [] e.k = "builtin" ->
         LET A == EvalArgs(e.args, 1, <<>>, E, c, h, loc)
         IN IF ~A.ok THEN A ELSE Builtin(e.f, A.v, A.h)
    [] e.k = "map" ->
         LET A == Eval(e.arr, E, c, h, loc)
         IN IF ~A.ok THEN A
            ELSE LET R == MapElems(Elements(A.h[A.v.n]), 1, <<>>, e.param, e.body, E, c, A.h, loc)
                 IN IF ~R.ok THEN R
                    ELSE Ok(Ref(Len(R.h) + 1), Append(R.h, ArrayOf(R.v)))

\* The property definitions of an object literal, left to right
EvalProps(items, i, acc, E, c, h, loc) ==
  IF i > Len(items) THEN Ok(acc, h)
  ELSE IF items[i].k = "spread"
       THEN LET S == Eval(items[i].e, E, c, h, loc)
            IN IF ~S.ok THEN S
               ELSE EvalProps(items, i + 1,
                              IF S.v.t = "object"
                              THEN CopyDataProperties(acc, S.h[S.v.n], {})
                              ELSE acc,
                              E, c, S.h, loc)
  ELSE LET Ky == Eval(items[i].key, E, c, h, loc)
       IN IF ~Ky.ok THEN Ky
          ELSE LET V == Eval(items[i].e, E, c, Ky.h, loc)
               IN IF ~V.ok THEN V
                  ELSE EvalProps(items, i + 1,
                                 CreateDataProperty(acc, ToPropertyKey(Ky.v), V.v),
                                 E, c, V.h, loc)

\* The elements of an array literal; a spread element iterates its operand
EvalElems(items, i, acc, E, c, h, loc) ==
  IF i > Len(items) THEN Ok(acc, h)
  ELSE LET V == Eval(items[i].e, E, c, h, loc)
       IN IF ~V.ok THEN V
          ELSE IF items[i].k = "spread"
               THEN IF V.v.t = "object" /\ V.h[V.v.n].arr
                    THEN EvalElems(items, i + 1, acc \o Elements(V.h[V.v.n]), E, c, V.h, loc)
                    ELSE Thrown(NotIterableError, V.h)
          ELSE EvalElems(items, i + 1, Append(acc, V.v), E, c, V.h, loc)

EvalArgs(args, i, acc, E, c, h, loc) ==
  IF i > Len(args) THEN Ok(acc, h)
  ELSE LET V == Eval(args[i], E, c, h, loc)
       IN IF ~V.ok THEN V
          ELSE EvalArgs(args, i + 1, Append(acc, V.v), E, c, V.h, loc)

\* Array.prototype.map with an arrow function of one parameter
MapElems(vals, i, acc, param, body, E, c, h, loc) ==
  IF i > Len(vals) THEN Ok(acc, h)
  ELSE LET V == Eval(body, E, c, h, (param :> vals[i]) @@ loc)
       IN IF ~V.ok THEN V
          ELSE MapElems(vals, i + 1, Append(acc, V.v), param, body, E, c, V.h, loc)

----------------------------------------------------------------------------
(* Statements.  A script is a flat sequence of instructions; a construct    *)
(* that encloses statements records how many instructions it encloses.      *)

Log(line, args) == <<[op |-> "log", line |-> line, args |-> args]>>
Decl(kind, name, e) == <<[op |-> "decl", kind |-> kind, name |-> name, e |-> e]>>
Assign(name, e) == <<[op |-> "assign", name |-> name, e |-> e]>>
SetProp(obj, key, e) == <<[op |-> "setprop", obj |-> obj, key |-> key, e |-> e]>>
ExprStmt(e) == <<[op |-> "expr", e |-> e]>>
Call(name) == <<[op |-> "call", name |-> name]>>
\* const { key: name, ..., ...rest } = src   (rest = "" when the pattern has none)
Destructure(kind, props, rest, src) ==
  <<[op |-> "destructure", kind |-> kind, props |-> props, rest |-> rest, e |-> src]>>
Pat(key, name) == [key |-> key, name |-> name]

Block(body) ==
  <<[op |-> "block", n |-> Len(body)]>> \o body \o <<[op |-> "endblock"]>>
Try(body, handler) ==
  <<[op |-> "try", n |-> Len(body), m |-> Len(handler)]>> \o body
    \o <<[op |-> "endtry", m |-> Len(handler)]>> \o handler \o <<[op |-> "endcatch"]>>
Function(name, body) ==
  <<[op |-> "function", name |-> name, n |-> Len(body)]>> \o body \o <<[op |-> "return"]>>
\* var name = function() { body };
VarFunction(name, body) ==
  <<[op |-> "varfn", name |-> name, n |-> Len(body)]>> \o body \o <<[op |-> "return"]>>
\* setTimeout(() => body, delay);
SetTimeout(body, delay) ==
  <<[op |-> "setTimeout", n |-> Len(body), delay |-> delay]>> \o body \o <<[op |-> "return"]>>
JumpIfFalse(e, off) == <<[op |-> "jf", e |-> e, off |-> off]>>
Jump(off) == <<[op |-> "jmp", off |-> off]>>
IterEnv(names) == <<[op |-> "iterenv", names |-> names]>>

\* for (var name = init; cond; name = update) { body }
ForVar(name, init, cond, update, body) ==
  Decl("var", name, init)
    \o JumpIfFalse(cond, Len(body) + 5) \o Block(body)
    \o Assign(name, update) \o Jump(0 - (Len(body) + 4))

\* for (let name = init; cond; name = update) { body }: the loop has a scope
\* of its own and every iteration gets a copy of it
ForLet(name, init, cond, update, body) ==
  Block(Decl("let", name, init) \o IterEnv({name})
          \o JumpIfFalse(cond, Len(body) + 6) \o Block(body)
          \o IterEnv({name}) \o Assign(name, update) \o Jump(0 - (Len(body) + 5)))

\* for (let name of src) { body }
ForOf(name, src, body) ==
  <<[op |-> "getiterator", e |-> src]>>
    \o <<[op |-> "iterstep", name |-> name, off |-> Len(body) + 4]>>
    \o Block(body) \o Jump(0 - (Len(body) + 3))

\* Number of instructions a construct takes up
Span(ins) ==
  CASE ins.op = "block" -> ins.n + 2
    [] ins.op = "try" -> ins.n + ins.m + 3
    [] ins.op \in {"function", "varfn", "setTimeout"} -> ins.n + 2
    [] OTHER -> 1

----------------------------------------------------------------------------
(* Static semantics: declared names, early errors *)

DeclaredBy(ins) ==
  IF ins.op = "decl" THEN <<[name |-> ins.name, kind |-> ins.kind]>>
  ELSE IF ins.op = "destructure"
  THEN [i \in 1..Len(ins.props) |-> [name |-> ins.props[i].name, kind |-> ins.kind]]
         \o (IF ins.rest = "" THEN <<>> ELSE <<[name |-> ins.rest, kind |-> ins.kind]>>)
  ELSE <<>>

RECURSIVE LexicallyScopedDeclarations(_, _, _)
\* let/const declared directly in the statement list p[lo..hi]
LexicallyScopedDeclarations(p, lo, hi) ==
  IF lo > hi THEN <<>>
  ELSE SelectSeq(DeclaredBy(p[lo]), LAMBDA d : d.kind \in {"let", "const"})
         \o LexicallyScopedDeclarations(p, lo + Span(p[lo]), hi)

RECURSIVE VarDeclaredNames(_, _, _)
\* var names declared anywhere in p[lo..hi] outside nested functions
VarDeclaredNames(p, lo, hi) ==
  IF lo > hi THEN {}
  ELSE {d.name : d \in {x \in {DeclaredBy(p[lo])[i] : i \in 1..Len(DeclaredBy(p[lo]))} :
                        x.kind = "var"}}
         \cup (IF p[lo].op = "varfn" THEN {p[lo].name} ELSE {})
         \cup VarDeclaredNames(p,
                 lo + (IF p[lo].op \in {"function", "varfn", "setTimeout"}
                       THEN Span(p[lo]) ELSE 1), hi)

RECURSIVE FunctionDeclarations(_, _, _)
\* function declarations directly in p[lo..hi], as [name, ip of the body]
FunctionDeclarations(p, lo, hi) ==
  IF lo > hi THEN <<>>
  ELSE (IF p[lo].op = "function" THEN <<[name |-> p[lo].name, ip |-> lo + 1]>> ELSE <<>>)
         \o FunctionDeclarations(p, lo + Span(p[lo]), hi)

Names(decls) == {decls[i].name : i \in 1..Len(decls)}

\* "Identifier has already been declared": a let/const name declared twice in
\* one scope, or also declared by var/function in it
Redeclared(p, lo, hi, withFunctions) ==
  LET L == LexicallyScopedDeclarations(p, lo, hi)
  IN \/ \E i, j \in 1..Len(L) : i < j /\ L[i].name = L[j].name
     \/ Names(L) \cap VarDeclaredNames(p, lo, hi) # {}
     \/ withFunctions /\ Names(L) \cap Names(FunctionDeclarations(p, lo, hi)) # {}

\* The early errors of a script: found by the parser, before any statement runs
HasEarlyError(p) ==
  \/ Redeclared(p, 1, Len(p), TRUE)
  \/ \E i \in 1..Len(p) :
        \/ p[i].op \in {"block", "try"} /\ Redeclared(p, i + 1, i + p[i].n, FALSE)
        \/ p[i].op \in {"function", "varfn", "setTimeout"}
             /\ Redeclared(p, i + 1, i + p[i].n, TRUE)

\* (variant: a let/const binding treated like var, initialised to undefined)
LexicalBindingLikeVar(kind) == Binding(kind, TRUE, Undef)

\* A let/const binding when its scope is entered: declared, not initialised
LexicalBinding(kind) == Binding(kind, FALSE, Undef)

BlockBindings(p, lo, hi) ==
  LET L == LexicallyScopedDeclarations(p, lo, hi)
  IN [x \in Names(L) |-> LexicalBinding(L[CHOOSE i \in 1..Len(L) : L[i].name = x].kind)]

LastDeclared(F, x) ==
  F[CHOOSE i \in 1..Len(F) : F[i].name = x /\ \A j \in (i + 1)..Len(F) : F[j].name # x]

\* Global/FunctionDeclarationInstantiation for the body p[lo..hi]: var names
\* are undefined, function declarations hold their function (the last one of a
\* name wins, and wins over var), let/const are uninitialised
ScopeBindings(p, lo, hi) ==
  LET F == FunctionDeclarations(p, lo, hi)
      V == VarDeclaredNames(p, lo, hi)
      B == BlockBindings(p, lo, hi)
  IN [x \in V \cup Names(F) \cup DOMAIN B |->
        IF x \in DOMAIN B THEN B[x]
        ELSE IF x \in Names(F)
        THEN Binding("var", TRUE, Fn(LastDeclared(F, x).ip, x))
        ELSE Binding("var", TRUE, Undef)]

----------------------------------------------------------------------------
(* The scripts *)

N(n) == Lit(Num(n))
S(str) == Lit(Str(str))
\* a number literal with a fraction, kept as written
Dec(str) == Lit([t |-> "number", n |-> 0, s |-> str])
ErrorMessage == Id("e")

\* scripts/003_OperatorsInside/019_assignment-and-destructuring-deep-dive.js
Prog019 ==
  \* Case 1, Case 2, Case 4 (lines 27-56)
  Decl("let", "x_c1", N(5)) \o Decl("let", "y_c1", Id("x_c1")) \o Assign("y_c1", N(10))
  \o Log(30, <<Id("x_c1"), Id("y_c1")>>)
  \o Decl("let", "obj1_c2", ObjLit(<<P("name", S("JS"))>>))
  \o Decl("let", "obj2_c2", Id("obj1_c2"))
  \o SetProp(Id("obj2_c2"), S("name"), S("ECMAScript"))
  \o Log(39, <<Dot(Id("obj1_c2"), "name")>>)
  \o Decl("const", "PI_c4", Dec("3.14"))
  \o Try(Assign("PI_c4", Dec("3.1415")), Log(55, <<ErrorMessage>>))
  \* 5. Rest Operator with Destructuring (line 147)
  \o Destructure("const", <<Pat("id", "id_d5")>>, "details_d5",
                  ObjLit(<<P("id", N(1)), P("name", S("Alice")), P("age", N(25))>>))
  \o Log(148, <<Id("details_d5")>>)
  \* Exercise 1: Hoisting Basics (lines 257-266)
  \o Log(258, <<Id("a_ex1")>>)
  \o Decl("var", "a_ex1", N(100))
  \o Try(Log(262, <<Id("b_ex1")>>), Log(264, <<ErrorMessage>>))
  \o Decl("let", "b_ex1", N(200))
  \* Exercise 2: Re-declaration (lines 274-276)
  \o Decl("var", "x_ex2", N(10)) \o Decl("var", "x_ex2", N(20))
  \o Log(276, <<Id("x_ex2")>>)
  \* Exercise 3: Block Scope (lines 293-310)
  \o Block(Decl("var", "p_ex3", N(1)) \o Decl("let", "q_ex3", N(2))
             \o Decl("const", "r_ex3", N(3)))
  \o Log(298, <<Id("p_ex3")>>)
  \o Try(Log(301, <<Id("q_ex3")>>), Log(303, <<ErrorMessage>>))
  \o Try(Log(307, <<Id("r_ex3")>>), Log(309, <<ErrorMessage>>))
  \* Exercise 4: Const Objects (lines 318-326)
  \o Decl("const", "obj_ex4", ObjLit(<<P("lang", S("JS"))>>))
  \o SetProp(Id("obj_ex4"), S("lang"), S("Python"))
  \o Log(320, <<Id("obj_ex4")>>)
  \o Try(Assign("obj_ex4", ObjLit(<<P("lang", S("C++"))>>)), Log(325, <<ErrorMessage>>))
  \* Q1. Temporal Dead Zone Trap (lines 344-352)
  \o Decl("let", "x_q1", N(10))
  \o Block(Try(Log(347, <<Id("x_q1")>>) \o Decl("let", "x_q1", N(20)),
                Log(350, <<ErrorMessage>>)))
  \* Q2. Function Hoisting (lines 366-379)
  \o Call("sayHello")
  \o Function("sayHello", Log(369, <<S("Hello!")>>))
  \o Try(Call("sayHi"), Log(375, <<ErrorMessage>>))
  \o VarFunction("sayHi", Log(378, <<S("Hi!")>>))
  \* Q3. Weird `var` Behavior in Loops (lines 395-402)
  \o ForVar("i_q3", N(0), Bin("<", Id("i_q3"), N(3)), Bin("+", Id("i_q3"), N(1)),
             SetTimeout(Log(396, <<Id("i_q3")>>), N(1000)))
  \o ForLet("j_q3", N(0), Bin("<", Id("j_q3"), N(3)), Bin("+", Id("j_q3"), N(1)),
             SetTimeout(Log(401, <<Id("j_q3")>>), N(1100)))

\* scripts/015_variables-practice-round-2.js: the questions Q1..Q10, which the
\* file holds twice (lines 14-151 and again 166-325); d[q] is the line offset
\* of question q's copy
Questions015(d) ==
  \* Q1. Hoisting + Shadowing
  Decl("var", "a_q1", N(5))
  \o Function("test_q1", Log(23 + d[1], <<Id("a_q1")>>) \o Decl("var", "a_q1", N(10))
                           \o Log(25 + d[1], <<Id("a_q1")>>))
  \o Call("test_q1")
  \* Q2. Const & Reassignment
  \o Decl("const", "arr_q2", ArrLit(<<El(N(1)), El(N(2)), El(N(3))>>))
  \o ExprStmt(CallB("push", <<Id("arr_q2"), N(4)>>))
  \o Log(36 + d[2], <<Id("arr_q2")>>)
  \o Try(Assign("arr_q2", ArrLit(<<El(N(5)), El(N(6)), El(N(7))>>))
            \o Log(39 + d[2], <<Id("arr_q2")>>),
          Log(41 + d[2], <<ErrorMessage>>))
  \* Q3. TDZ Trick
  \o Block(Try(Log(51 + d[3], <<Id("x_q3")>>) \o Decl("let", "x_q3", N(100)),
                Log(54 + d[3], <<ErrorMessage>>)))
  \* Q4. Global vs Block Scope
  \o Decl("var", "x_q4", N(1)) \o Decl("let", "y_q4", N(2))
  \o Block(Decl("var", "x_q4", N(10)) \o Decl("let", "y_q4", N(20))
             \o Log(68 + d[4], <<Id("x_q4"), Id("y_q4")>>))
  \o Log(70 + d[4], <<Id("x_q4"), Id("y_q4")>>)
  \* Q5. Function Hoisting with Var
  \o Try(Call("sayHi_q5"), Log(80 + d[5], <<ErrorMessage>>))
  \o VarFunction("sayHi_q5", Log(83 + d[5], <<S("Hi!")>>))
  \* Q6. Loop Trap Again
  \o ForVar("i_q6", N(0), Bin("<", Id("i_q6"), N(3)), Bin("+", Id("i_q6"), N(1)),
             SetTimeout(Log(92 + d[6], <<Id("i_q6")>>), N(100)))
  \* Q7. Function vs Var Hoisting Clash
  \o Log(107 + d[7], <<Id("foo_q7")>>)
  \o Function("foo_q7", <<>>)
  \o Decl("var", "foo_q7", S("I am a variable"))
  \o Log(110 + d[7], <<Id("foo_q7")>>)
  \* Q8. Closure + var/let
  \o Function("counter_q8",
        ForVar("i", N(0), Bin("<", Id("i"), N(3)), Bin("+", Id("i"), N(1)),
               SetTimeout(Log(119 + d[8], <<Id("i")>>),
                          Bin("+", Bin("*", Id("i"), N(100)), N(200))))
        \o ForLet("j", N(0), Bin("<", Id("j"), N(3)), Bin("+", Id("j"), N(1)),
                  SetTimeout(Log(122 + d[8], <<Id("j")>>),
                             Bin("+", Bin("*", Id("j"), N(100)), N(200)))))
  \o Call("counter_q8")
  \* Q9. TDZ + Function Parameter: test_q9(x = y, y = 2) called without
  \* arguments initialises its parameters left to right from their defaults
  \o Function("test_q9", Decl("let", "x", Id("y")) \o Decl("let", "y", N(2))
                           \o Log(133 + d[9], <<Id("x"), Id("y")>>))
  \o Try(Call("test_q9"), Log(138 + d[9], <<ErrorMessage>>))
  \* Q10. const Object Mutability
  \o Decl("const", "obj_q10", ObjLit(<<P("name", S("JS"))>>))
  \o SetProp(Id("obj_q10"), S("name"), S("JavaScript"))
  \o Log(148 + d[10], <<Id("obj_q10")>>)
  \o ExprStmt(CallB("Object.freeze", <<Id("obj_q10")>>))
  \o SetProp(Id("obj_q10"), S("name"), S("ECMAScript"))
  \o Log(151 + d[10], <<Id("obj_q10")>>)

FirstCopy015 == [q \in 1..10 |-> 0]
SecondCopy015 == <<154, 156, 158, 160, 162, 164, 168, 170, 172, 174>>

Prog015 == Questions015(FirstCopy015) \o Questions015(SecondCopy015)

\* scripts/013_primitive-symbol-deep-dive.js, lines 107-131
Prog013 ==
  Decl("const", "range",
       ObjLit(<<P("from", N(1)), P("to", N(3)),
                PC(Lit(SymV(0, "Symbol.iterator")), Lit(Fn(0, "[Symbol.iterator]")))>>))
  \o Log(127, <<S("Custom iterator with for...of:")>>)
  \o ForOf("n", Id("range"), Log(130, <<Id("n")>>))

\* unnamed/part_001 (spread and rest; destructuring use cases)
ProgPart001 ==
  Decl("const", "obj1_s1", ObjLit(<<P("a", N(1)), P("b", N(2))>>))
  \o Decl("const", "obj2_s1", ObjLit(<<Spread(Id("obj1_s1")), P("c", N(3))>>))
  \o Log(32, <<Id("obj2_s1")>>)
  \o Destructure("const", <<Pat("a", "a_s2")>>, "rest_s2",
                  ObjLit(<<P("a", N(10)), P("b", N(20)), P("c", N(30))>>))
  \o Log(47, <<Id("rest_s2")>>)
  \o Decl("const", "original_s4", ObjLit(<<P("x", N(1)), P("y", N(2))>>))
  \o Decl("const", "copy_s4", ObjLit(<<Spread(Id("original_s4"))>>))
  \o Log(73, <<Id("copy_s4")>>)
  \o Decl("const", "user_s4", ObjLit(<<P("name", S("Alice")), P("age", N(20))>>))
  \o Decl("const", "updatedUser_s4", ObjLit(<<Spread(Id("user_s4")), P("age", N(21))>>))
  \o Log(78, <<Id("updatedUser_s4")>>)
  \o Decl("const", "nested_hi", ArrLit(<<El(ObjLit(<<P("x", N(1))>>)),
                                          El(ObjLit(<<P("y", N(2))>>))>>))
  \o Decl("const", "copy_hi", ArrLit(<<Spread(Id("nested_hi"))>>))
  \o SetProp(Idx(Id("copy_hi"), N(0)), S("x"), N(99))
  \o Log(89, <<Dot(Idx(Id("nested_hi"), N(0)), "x")>>)
  \o Decl("const", "notIterable_ac", ObjLit(<<P("a", N(1)), P("b", N(2))>>))
  \o Try(Decl("const", "fail_ac", ArrLit(<<Spread(Id("notIterable_ac"))>>)),
          Log(105, <<ErrorMessage>>))
  \o Decl("const", "obj1_bb", ObjLit(<<P("a", N(1)), P("b", ObjLit(<<P("c", N(2))>>))>>))
  \o Decl("const", "obj2_bb", ObjLit(<<Spread(Id("obj1_bb"))>>))
  \o SetProp(Dot(Id("obj2_bb"), "b"), S("c"), N(99))
  \o Log(141, <<Dot(Dot(Id("obj1_bb"), "b"), "c")>>)
  \o Destructure("const", <<Pat("x_s5", "x_s5")>>, "rest_s5",
                  ObjLit(<<P("x", N(1)), P("y", N(2)), P("z", N(3))>>))
  \o Log(230, <<Id("rest_s5")>>)
  \* Gotcha 3 (lines 267-275): a try block that logs a sentence and never throws
  \o Try(Log(270, <<>>), <<>>)

\* unnamed/part_002 (spread/rest internals and edge cases)
ProgPart002 ==
  Decl("const", "sym_s1", SymbolCall(18, "secret"))
  \o Decl("const", "obj_s1", ObjLit(<<P("a", N(1)), PC(Id("sym_s1"), N(42))>>))
  \o Decl("const", "copy_s1", ObjLit(<<Spread(Id("obj_s1"))>>))
  \o Log(22, <<Id("obj_s1")>>)
  \o Log(23, <<Id("copy_s1")>>)
  \o Log(24, <<Idx(Id("copy_s1"), Id("sym_s1"))>>)
  \o Decl("const", "copyWithSymbols_s1",
           CallB("Object.assign", <<ObjLit(<<>>), Id("obj_s1")>>))
  \o Log(28, <<Id("copyWithSymbols_s1")>>)
  \o Log(29, <<Idx(Id("copyWithSymbols_s1"), Id("sym_s1"))>>)
  \o Decl("const", "a_s4", ObjLit(<<P("x", N(1)), P("y", N(10))>>))
  \o Decl("const", "b_s4", ObjLit(<<P("x", N(2)), P("z", N(3))>>))
  \o Decl("const", "c_s4", ObjLit(<<Spread(Id("a_s4")), Spread(Id("b_s4")), P("x", N(99))>>))
  \o Log(69, <<Id("c_s4")>>)
  \o Decl("const", "sym_s7", SymbolCall(103, "secret"))
  \o Decl("const", "base_s7",
           ObjLit(<<P("a", N(1)), P("b", N(2)), PC(Id("sym_s7"), S("hidden"))>>))
  \o ExprStmt(CallB("Object.defineProperty",
                     <<Id("base_s7"), S("c"), N(3), Lit(Bool(FALSE))>>))
  \o Destructure("const", <<Pat("a", "a_s7")>>, "rest_s7", Id("base_s7"))
  \o Log(108, <<Id("rest_s7")>>)

\* unnamed/part_003 (internals of destructuring), lines 103-104
ProgPart003 ==
  Destructure("const", <<Pat("id", "rest_id")>>, "rest",
              ObjLit(<<P("id", N(1)), P("name", S("Alice")), P("age", N(25))>>))
  \o Log(104, <<Id("rest_id"), Id("rest")>>)

\* unnamed/part_006 (advanced spread/rest tricks)
ProgPart006 ==
  Decl("const", "obj_s1", ObjLit(<<P("a", N(1)), P("b", ObjLit(<<P("c", N(2))>>))>>))
  \o Decl("const", "copy_s1", ObjLit(<<Spread(Id("obj_s1"))>>))
  \o SetProp(Dot(Id("copy_s1"), "b"), S("c"), N(99))
  \o Log(20, <<Dot(Dot(Id("obj_s1"), "b"), "c")>>)
  \o Decl("const", "deep2", CallB("structuredClone", <<Id("obj_s1")>>))
  \o SetProp(Dot(Id("deep2"), "b"), S("c"), N(500))
  \o Log(26, <<Dot(Dot(Id("obj_s1"), "b"), "c")>>)
  \o Decl("const", "a_s2", ObjLit(<<P("x", N(1)), P("y", N(2))>>))
  \o Decl("const", "b_s2", ObjLit(<<P("y", N(10)), P("z", N(3))>>))
  \o Decl("const", "merged_s2", ObjLit(<<Spread(Id("a_s2")), Spread(Id("b_s2"))>>))
  \o Log(38, <<Id("merged_s2")>>)
  \o Decl("const", "users_s3",
           ArrLit(<<El(ObjLit(<<P("id", N(1)), P("active", Lit(Bool(FALSE)))>>)),
                    El(ObjLit(<<P("id", N(2)), P("active", Lit(Bool(FALSE)))>>))>>))
  \o Decl("const", "updated_s3",
           MapCall(Id("users_s3"), "u",
                   Cond(Bin("===", Dot(Id("u"), "id"), N(2)),
                        ObjLit(<<Spread(Id("u")), P("active", Lit(Bool(TRUE)))>>),
                        Id("u"))))
  \o Log(51, <<Id("users_s3")>>)
  \o Log(52, <<Id("updated_s3")>>)
  \o Destructure("const", <<Pat("a", "a_s5")>>, "rest_s5",
                  ObjLit(<<P("a", N(1)), P("b", N(2)), P("c", N(3))>>))
  \o Log(71, <<Id("rest_s5")>>)
  \o Decl("const", "obj_s6", ObjLit(<<P("a", N(1)), P("b", N(2))>>))
  \o Try(Log(83, <<ArrLit(<<Spread(Id("obj_s6"))>>)>>), Log(85, <<ErrorMessage>>))

\* scripts/016 (type conversion and operators): the comparisons of lines
\* 129-173 and 202; the statements between them are console.log calls of
\* arithmetic and one const declaration, none of which throws
Prog016 ==
  Log(129, <<Bin("===", N(0), S("0"))>>)
  \o Log(130, <<Bin("===", Lit(NaN), Lit(NaN))>>)
  \o Log(134, <<Bin("==", Lit(Null), Lit(Undef))>>)
  \o Log(135, <<Bin("==", S("42"), N(42))>>)
  \o Log(136, <<Bin("==", Lit(Bool(TRUE)), N(1))>>)
  \o Log(137, <<Bin("==", ArrLit(<<>>), N(0))>>)
  \o Log(138, <<Bin("==", ArrLit(<<>>), Lit(Bool(FALSE)))>>)
  \o Log(142, <<Bin("<", S("2"), S("12"))>>)
  \o Log(144, <<Bin("<", S("2"), N(12))>>)
  \o Log(152, <<Bin("==", Lit(Null), Lit(Undef))>>)
  \o Log(153, <<Bin("===", Lit(Null), Lit(Undef))>>)
  \o Log(157, <<Bin("==", ArrLit(<<>>), N(0))>>)
  \o Log(158, <<Bin("==", ArrLit(<<>>), Lit(Bool(FALSE)))>>)
  \o Log(159, <<Bin("==", ArrLit(<<El(Lit(Null))>>), N(0))>>)
  \o Log(164, <<Bin("<", S("2"), S("12"))>>)
  \o Log(168, <<Bin("==", Lit(Bool(FALSE)), S("0"))>>)
  \o Log(169, <<Bin("===", Lit(Bool(FALSE)), S("0"))>>)
  \o Log(173, <<Bin("===", Lit(NaN), Lit(NaN))>>)
  \o Log(202, <<Bin("==", ArrLit(<<>>), Not(ArrLit(<<>>)))>>)

\* unnamed/part_005 (logical operators and equality), lines 299-309, 353, 361
ProgPart005 ==
  Log(299, <<Bin("==", ArrLit(<<>>), Lit(Bool(FALSE)))>>)
  \o Log(307, <<Bin("===", ArrLit(<<>>), Lit(Bool(FALSE)))>>)
  \o Log(308, <<Bin("==", S("0"), Lit(Bool(FALSE)))>>)
  \o Log(309, <<Bin("==", Lit(Null), Lit(Bool(FALSE)))>>)
  \o Log(353, <<Bin("==", ArrLit(<<>>), Lit(Bool(TRUE)))>>)
  \o Log(361, <<Bin("==", ArrLit(<<El(N(0))>>), Lit(Bool(FALSE)))>>)

\* scripts/002_PrimitiveDataType/012 (null): the comparisons of lines 67-82 and
\* 108-109; the statements before them declare and log without throwing
Prog012 ==
  Log(67, <<Bin("==", Lit(Null), N(0))>>)
  \o Log(72, <<Bin("<", Lit(Null), N(0))>>)
  \o Log(77, <<Bin("<=", Lit(Null), N(0))>>)
  \o Log(82, <<Bin(">=", Lit(Null), N(0))>>)
  \o Log(108, <<Bin("==", Lit(Null), Lit(Undef))>>)
  \o Log(109, <<Bin("==", Lit(Null), Lit(Bool(FALSE)))>>)

\* scripts/011 (undefined), lines 79-80; the name undefined has the value
\* undefined there (the var undefined of line 157 is assigned later)
Prog011 ==
  Log(79, <<Bin("==", Lit(Undef), Lit(Null))>>)
  \o Log(80, <<Bin("===", Lit(Undef), Lit(Null))>>)

Scripts == {"019", "015", "013", "016", "012", "011", "part_001", "part_002", "part_003", "part_005", "part_006"}

Program(f) ==
  CASE f = "019" -> Prog019
    [] f = "015" -> Prog015
    [] f = "013" -> Prog013
    [] f = "016" -> Prog016
    [] f = "012" -> Prog012
    [] f = "011" -> Prog011
    [] f = "part_001" -> ProgPart001
    [] f = "part_002" -> ProgPart002
    [] f = "part_003" -> ProgPart003
    [] f = "part_005" -> ProgPart005
    [] f = "part_006" -> ProgPart006

----------------------------------------------------------------------------
(* The machine *)

VARIABLES
  file,       \* the script being run (each run is one file on its own)
  phase,      \* "parse", "run", "idle", "callback", "done", "SyntaxError", "uncaught"
  ip,         \* index of the next instruction
  cur,        \* the running lexical environment (index into envs)
  envs,       \* all environment records created so far
  heap,       \* all objects created so far
  stack,      \* frames of the callers: [ret, env]
  handlers,   \* enclosing try blocks: [catch, env, depth, iters]
  iters,      \* for...of loops in progress: [env, outer]
  timers,     \* setTimeout calls so far: [cb, env, delay, start, state]
  now,        \* wall clock, ms
  log,        \* console output: [line, args]
  completed   \* the script's last top-level statement has finished

vars == <<file, phase, ip, cur, envs, heap, stack, handlers, iters, timers, now, log,
          completed>>

prog == Program(file)
Executing == phase \in {"run", "callback"} /\ ip \in 1..Len(prog)
At(op) == Executing /\ prog[ip].op = op
Ins == prog[ip]

Init ==
  /\ file \in Scripts
  /\ phase = "parse"
  /\ ip = 1
  /\ cur = 0
  /\ envs = <<>>
  /\ heap = <<>>
  /\ stack = <<>>
  /\ handlers = <<>>
  /\ iters = <<>>
  /\ timers = <<>>
  /\ now = 0
  /\ log = <<>>
  /\ completed = FALSE

\* Parsing comes first: a script with an early error runs no statement at all
ParseScript ==
  /\ phase = "parse"
  /\ IF HasEarlyError(prog)
     THEN /\ phase' = "SyntaxError"
          /\ UNCHANGED <<envs, cur>>
     ELSE /\ phase' = "run"
          /\ envs' = <<[parent |-> 0, b |-> ScopeBindings(prog, 1, Len(prog))]>>
          /\ cur' = 1
  /\ UNCHANGED <<file, ip, heap, stack, handlers, iters, timers, now, log, completed>>

\* throw: to the innermost enclosing catch, or out of the program
Raise(err, h) ==
  /\ heap' = h
  /\ IF handlers = <<>>
     THEN /\ phase' = "uncaught"
          /\ UNCHANGED <<ip, cur, envs, stack, handlers, iters>>
     ELSE LET H == handlers[Len(handlers)]
          IN /\ handlers' = SubSeq(handlers, 1, Len(handlers) - 1)
             /\ stack' = SubSeq(stack, 1, H.depth)
             /\ iters' = SubSeq(iters, 1, H.iters)
             /\ envs' = Append(envs, [parent |-> H.env,
                                      b |-> ("e" :> Binding("let", TRUE, err))])
             /\ cur' = Len(envs) + 1
             /\ ip' = H.catch
             /\ UNCHANGED phase

InitializeBinding(E, c, name, v) ==
  LET r == ResolveBinding(E, c, name)
  IN [E EXCEPT ![r].b[name] = [@ EXCEPT !.init = TRUE, !.val = v]]

\* console.log(...args)
ExecLog ==
  /\ At("log")
  /\ LET A == EvalArgs(Ins.args, 1, <<>>, envs, cur, heap, NoLocals)
     IN IF A.ok
        THEN /\ log' = Append(log, [line |-> Ins.line, args |-> A.v])
             /\ heap' = A.h
             /\ ip' = ip + 1
             /\ UNCHANGED <<phase, cur, envs, stack, handlers, iters>>
        ELSE Raise(A.v, A.h) /\ UNCHANGED log
  /\ UNCHANGED <<file, timers, now, completed>>

\* var/let/const name = e
ExecDecl ==
  /\ At("decl")
  /\ LET R == Eval(Ins.e, envs, cur, heap, NoLocals)
     IN IF R.ok
        THEN /\ envs' = InitializeBinding(envs, cur, Ins.name, R.v)
             /\ heap' = R.h
             /\ ip' = ip + 1
             /\ UNCHANGED <<phase, cur, stack, handlers, iters>>
        ELSE Raise(R.v, R.h)
  /\ UNCHANGED <<file, timers, now, log, completed>>

\* (variant: an assignment that writes const bindings like any other)
ExecAssignAnyBinding ==
  /\ At("assign")
  /\ LET R == Eval(Ins.e, envs, cur, heap, NoLocals)
         r == ResolveBinding(envs, cur, Ins.name)
     IN IF ~R.ok THEN Raise(R.v, R.h)
        ELSE IF r = 0 THEN Raise(NotDefinedError, R.h)
        ELSE IF ~envs[r].b[Ins.name].init THEN Raise(TDZError, R.h)
        ELSE /\ envs' = [envs EXCEPT ![r].b[Ins.name].val = R.v]
             /\ heap' = R.h
             /\ ip' = ip + 1
             /\ UNCHANGED <<phase, cur, stack, handlers, iters>>
  /\ UNCHANGED <<file, timers, now, log, completed>>

\* name = e
ExecAssign ==
  /\ At("assign")
  /\ LET R == Eval(Ins.e, envs, cur, heap, NoLocals)
         r == ResolveBinding(envs, cur, Ins.name)
     IN IF ~R.ok THEN Raise(R.v, R.h)
        ELSE IF r = 0 THEN Raise(NotDefinedError, R.h)
        ELSE IF ~envs[r].b[Ins.name].init THEN Raise(TDZError, R.h)
        ELSE IF envs[r].b[Ins.name].kind = "const" THEN Raise(ConstAssignError, R.h)
        ELSE /\ envs' = [envs EXCEPT ![r].b[Ins.name].val = R.v]
             /\ heap' = R.h
             /\ ip' = ip + 1
             /\ UNCHANGED <<phase, cur, stack, handlers, iters>>
  /\ UNCHANGED <<file, timers, now, log, completed>>

\* obj[key] = e
ExecSetProp ==
  /\ At("setprop")
  /\ LET O == Eval(Ins.obj, envs, cur, heap, NoLocals)
         Ky == Eval(Ins.key, envs, cur, O.h, NoLocals)
         V == Eval(Ins.e, envs, cur, Ky.h, NoLocals)
     IN IF ~O.ok THEN Raise(O.v, O.h)
        ELSE IF ~Ky.ok THEN Raise(Ky.v, Ky.h)
        ELSE IF ~V.ok THEN Raise(V.v, V.h)
        ELSE IF O.v.t # "object" THEN Raise(NullPropertyError, V.h)
        ELSE /\ heap' = PutValue(V.h, O.v.n, ToPropertyKey(Ky.v), V.v)
             /\ ip' = ip + 1
             /\ UNCHANGED <<phase, cur, envs, stack, handlers, iters>>
  /\ UNCHANGED <<file, timers, now, log, completed>>

\* an expression statement (a call of a built-in)
ExecExpr ==
  /\ At("expr")
  /\ LET R == Eval(Ins.e, envs, cur, heap, NoLocals)
     IN IF R.ok
        THEN /\ heap' = R.h
             /\ ip' = ip + 1
             /\ UNCHANGED <<phase, cur, envs, stack, handlers, iters>>
        ELSE Raise(R.v, R.h)
  /\ UNCHANGED <<file, timers, now, log, completed>>

\* The rest object of an object pattern: the source's properties except the
\* keys the pattern names before the rest element
RestObject(o, props) ==
  NewObject(FALSE, CopyDataProperties(<<>>, o, {K(props[i].key) : i \in 1..Len(props)}))

RECURSIVE BindPattern(_, _, _, _, _, _)
BindPattern(E, c, h, a, props, i) ==
  IF i > Len(props) THEN E
  ELSE BindPattern(InitializeBinding(E, c, props[i].name, Get(h, a, K(props[i].key))),
                   c, h, a, props, i + 1)

\* const { key: name, ..., ...rest } = e
ExecDestructure ==
  /\ At("destructure")
  /\ LET R == Eval(Ins.e, envs, cur, heap, NoLocals)
     IN IF ~R.ok THEN Raise(R.v, R.h)
        ELSE IF R.v.t # "object" THEN Raise(NullPropertyError, R.h)
        ELSE LET E1 == BindPattern(envs, cur, R.h, R.v.n, Ins.props, 1)
             IN /\ IF Ins.rest = ""
                   THEN envs' = E1 /\ heap' = R.h
                   ELSE /\ heap' = Append(R.h, RestObject(R.h[R.v.n], Ins.props))
                        /\ envs' = InitializeBinding(E1, cur, Ins.rest, Ref(Len(R.h) + 1))
                /\ ip' = ip + 1
                /\ UNCHANGED <<phase, cur, stack, handlers, iters>>
  /\ UNCHANGED <<file, timers, now, log, completed>>

\* { : a new scope whose let/const bindings exist from here on
EnterBlock ==
  /\ At("block")
  /\ envs' = Append(envs, [parent |-> cur, b |-> BlockBindings(prog, ip + 1, ip + Ins.n)])
  /\ cur' = Len(envs) + 1
  /\ ip' = ip + 1
  /\ UNCHANGED <<file, phase, heap, stack, handlers, iters, timers, now, log, completed>>

\* }
LeaveBlock ==
  /\ At("endblock")
  /\ cur' = envs[cur].parent
  /\ ip' = ip + 1
  /\ UNCHANGED <<file, phase, envs, heap, stack, handlers, iters, timers, now, log,
                 completed>>

\* try {
EnterTry ==
  /\ At("try")
  /\ envs' = Append(envs, [parent |-> cur, b |-> BlockBindings(prog, ip + 1, ip + Ins.n)])
  /\ cur' = Len(envs) + 1
  /\ handlers' = Append(handlers, [catch |-> ip + Ins.n + 2, env |-> cur,
                                   depth |-> Len(stack), iters |-> Len(iters)])
  /\ ip' = ip + 1
  /\ UNCHANGED <<file, phase, heap, stack, iters, timers, now, log, completed>>

\* the try block ended without a throw: skip the catch block
LeaveTry ==
  /\ At("endtry")
  /\ handlers' = SubSeq(handlers, 1, Len(handlers) - 1)
  /\ cur' = envs[cur].parent
  /\ ip' = ip + Ins.m + 2
  /\ UNCHANGED <<file, phase, envs, heap, stack, iters, timers, now, log, completed>>

\* end of a catch block
LeaveCatch ==
  /\ At("endcatch")
  /\ cur' = envs[cur].parent
  /\ ip' = ip + 1
  /\ UNCHANGED <<file, phase, envs, heap, stack, handlers, iters, timers, now, log,
                 completed>>

\* a function declaration does nothing when control reaches it
PassFunctionDeclaration ==
  /\ At("function")
  /\ ip' = ip + Span(Ins)
  /\ UNCHANGED <<file, phase, cur, envs, heap, stack, handlers, iters, timers, now, log,
                 completed>>

\* var name = function() { ... }
AssignFunctionExpression ==
  /\ At("varfn")
  /\ envs' = InitializeBinding(envs, cur, Ins.name, Fn(ip + 1, Ins.name))
  /\ ip' = ip + Span(Ins)
  /\ UNCHANGED <<file, phase, cur, heap, stack, handlers, iters, timers, now, log,
                 completed>>

\* name(): every function of the scripts is created in the script's scope
CallFunction ==
  /\ At("call")
  /\ LET F == GetBindingValue(envs, cur, heap, Ins.name)
     IN IF ~F.ok THEN Raise(F.v, heap)
        ELSE IF F.v.t # "function" THEN Raise(NotFunctionError, heap)
        ELSE LET lo == F.v.n
                 hi == lo + prog[lo - 1].n - 1
             IN /\ envs' = Append(envs, [parent |-> 1, b |-> ScopeBindings(prog, lo, hi)])
                /\ cur' = Len(envs) + 1
                /\ stack' = Append(stack, [ret |-> ip + 1, env |-> cur])
                /\ ip' = lo
                /\ UNCHANGED <<phase, heap, handlers, iters>>
  /\ UNCHANGED <<file, timers, now, log, completed>>

\* the end of a function body: back to the caller, or, for a timer callback,
\* back to the event loop
Return ==
  /\ At("return")
  /\ IF stack = <<>>
     THEN /\ phase' = "idle"
          /\ timers' = [i \in 1..Len(timers) |->
                          IF timers[i].state = "running"
                          THEN [timers[i] EXCEPT !.state = "fired"] ELSE timers[i]]
          /\ UNCHANGED <<ip, cur, stack>>
     ELSE /\ ip' = stack[Len(stack)].ret
          /\ cur' = stack[Len(stack)].env
          /\ stack' = SubSeq(stack, 1, Len(stack) - 1)
          /\ UNCHANGED <<phase, timers>>
  /\ UNCHANGED <<file, envs, heap, handlers, iters, now, log, completed>>

\* setTimeout(callback, delay): the delay is computed now, the callback later
SetTimeoutCall ==
  /\ At("setTimeout")
  /\ LET D == Eval(Ins.delay, envs, cur, heap, NoLocals)
     IN IF D.ok
        THEN /\ timers' = Append(timers, [cb |-> ip + 1, env |-> cur, delay |-> D.v.n,
                                          start |-> now, state |-> "pending"])
             /\ ip' = ip + Span(Ins)
             /\ UNCHANGED <<phase, cur, envs, heap, stack, handlers, iters>>
        ELSE Raise(D.v, D.h) /\ UNCHANGED timers
  /\ UNCHANGED <<file, now, log, completed>>

\* the test of a loop
ExecJumpIfFalse ==
  /\ At("jf")
  /\ LET C == Eval(Ins.e, envs, cur, heap, NoLocals)
     IN IF C.ok
        THEN /\ ip' = IF C.v.n = 1 THEN ip + 1 ELSE ip + Ins.off
             /\ UNCHANGED <<phase, cur, envs, heap, stack, handlers, iters>>
        ELSE Raise(C.v, C.h)
  /\ UNCHANGED <<file, timers, now, log, completed>>

\* back to the test of a loop
ExecJump ==
  /\ At("jmp")
  /\ ip' = ip + Ins.off
  /\ UNCHANGED <<file, phase, cur, envs, heap, stack, handlers, iters, timers, now, log,
                 completed>>

\* (variant: the loop keeps one environment for all its iterations)
SharedLoopEnvironment(E, c, names) == [E |-> E, c |-> c]

\* CreatePerIterationEnvironment: a new environment beside the running one,
\* holding copies of the loop's let bindings
PerIterationEnvironment(E, c, names) ==
  [E |-> Append(E, [parent |-> E[c].parent, b |-> [x \in names |-> E[c].b[x]]]),
   c |-> Len(E) + 1]

CreatePerIterationEnvironment ==
  /\ At("iterenv")
  /\ LET R == PerIterationEnvironment(envs, cur, Ins.names)
     IN envs' = R.E /\ cur' = R.c
  /\ ip' = ip + 1
  /\ UNCHANGED <<file, phase, heap, stack, handlers, iters, timers, now, log, completed>>

\* range[Symbol.iterator](): let current = this.from; const last = this.to;
SymbolIterator(h, this) ==
  ("current" :> Binding("let", TRUE, Get(h, this, K("from"))))
    @@ ("last" :> Binding("const", TRUE, Get(h, this, K("to"))))

\* next: () => ({ value: current <= last ? current++ : undefined,
\*                done: current > last })
\* the properties are evaluated in this order, so `done` sees the incremented
\* counter
next(current, last) ==
  LET value == IF current <= last THEN Num(current) ELSE Undef
      incremented == IF current <= last THEN current + 1 ELSE current
  IN [value |-> value, done |-> incremented > last, current |-> incremented]

\* for (let n of range): obtain the iterator
GetIterator ==
  /\ At("getiterator")
  /\ LET R == Eval(Ins.e, envs, cur, heap, NoLocals)
     IN IF ~R.ok THEN Raise(R.v, R.h)
        ELSE IF R.v.t # "object"
                \/ FindProp(R.h[R.v.n].props, SymKey(SymV(0, "Symbol.iterator"))) = 0
        THEN Raise(NotIterableError, R.h)
        ELSE /\ envs' = Append(envs, [parent |-> cur, b |-> SymbolIterator(R.h, R.v.n)])
             /\ iters' = Append(iters, [env |-> Len(envs) + 1, outer |-> cur])
             /\ heap' = R.h
             /\ ip' = ip + 1
             /\ UNCHANGED <<phase, cur, stack, handlers>>
  /\ UNCHANGED <<file, timers, now, log, completed>>

\* for...of: call next(); when the result is done leave the loop without
\* looking at its value, else bind the value and run the body
IterStep ==
  /\ At("iterstep")
  /\ LET I == iters[Len(iters)]
         R == next(envs[I.env].b["current"].val.n, envs[I.env].b["last"].val.n)
         E1 == [envs EXCEPT ![I.env].b["current"].val = Num(R.current)]
     IN IF R.done
        THEN /\ envs' = E1
             /\ iters' = SubSeq(iters, 1, Len(iters) - 1)
             /\ cur' = I.outer
             /\ ip' = ip + Ins.off
        ELSE /\ envs' = Append(E1, [parent |-> I.outer,
                                    b |-> (Ins.name :> Binding("let", TRUE, R.value))])
             /\ cur' = Len(envs) + 1
             /\ ip' = ip + 1
             /\ UNCHANGED iters
  /\ UNCHANGED <<file, phase, heap, stack, handlers, timers, now, log, completed>>

\* the last top-level statement has run
FinishScript ==
  /\ phase = "run"
  /\ ip = Len(prog) + 1
  /\ phase' = "idle"
  /\ completed' = TRUE
  /\ UNCHANGED <<file, ip, cur, envs, heap, stack, handlers, iters, timers, now, log>>

\* time passes while code runs
Tick ==
  /\ phase \in {"run", "callback"}
  /\ now + TickMs <= MaxClock
  /\ now' = now + TickMs
  /\ UNCHANGED <<file, phase, ip, cur, envs, heap, stack, handlers, iters, timers, log,
                 completed>>

Pending == {i \in 1..Len(timers) : timers[i].state = "pending"}
Expiry(i) == timers[i].start + timers[i].delay

\* (variant: a timer interrupts whatever is running)
PreemptiveTurn == phase \in {"run", "idle", "callback"}

\* The event loop takes callbacks only when no code is running
EventLoopTurn == phase = "idle"

\* A due timer runs once every timer set before it with the same or a shorter
\* delay has run
MayRun(i) ==
  /\ i \in Pending
  /\ Expiry(i) <= now
  /\ \A j \in Pending : ~(j < i /\ timers[j].delay <= timers[i].delay)

\* nothing is due: the event loop sleeps until the next timer is
Sleep ==
  /\ EventLoopTurn
  /\ Pending # {}
  /\ \A i \in Pending : Expiry(i) > now
  /\ now' = CHOOSE t \in {Expiry(i) : i \in Pending} : \A i \in Pending : t <= Expiry(i)
  /\ UNCHANGED <<file, phase, ip, cur, envs, heap, stack, handlers, iters, timers, log,
                 completed>>

\* the event loop calls one due callback; it runs to its end
FireTimer ==
  /\ EventLoopTurn
  /\ \E i \in 1..Len(timers) :
       /\ MayRun(i)
       /\ timers' = [timers EXCEPT ![i].state = "running"]
       /\ envs' = Append(envs, [parent |-> timers[i].env,
                                b |-> ScopeBindings(prog, timers[i].cb,
                                                    timers[i].cb + prog[timers[i].cb - 1].n - 1)])
       /\ cur' = Len(envs) + 1
       /\ ip' = timers[i].cb
  /\ phase' = "callback"
  /\ stack' = <<>>
  /\ handlers' = <<>>
  /\ UNCHANGED <<file, heap, iters, now, log, completed>>

\* nothing left to wait for: the process ends
Exit ==
  /\ phase = "idle"
  /\ Pending = {}
  /\ phase' = "done"
  /\ UNCHANGED <<file, ip, cur, envs, heap, stack, handlers, iters, timers, now, log,
                 completed>>

Next ==
  \/ ParseScript
  \/ ExecLog
  \/ ExecDecl
  \/ ExecAssign
  \/ ExecSetProp
  \/ ExecExpr
  \/ ExecDestructure
  \/ EnterBlock
  \/ LeaveBlock
  \/ EnterTry
  \/ LeaveTry
  \/ LeaveCatch
  \/ PassFunctionDeclaration
  \/ AssignFunctionExpression
  \/ CallFunction
  \/ Return
  \/ SetTimeoutCall
  \/ ExecJumpIfFalse
  \/ ExecJump
  \/ CreatePerIterationEnvironment
  \/ GetIterator
  \/ IterStep
  \/ FinishScript
  \/ Tick
  \/ Sleep
  \/ FireTimer
  \/ Exit

Spec == Init /\ [][Next]_vars

----------------------------------------------------------------------------
(* Properties *)

Terminated == phase \in {"done", "SyntaxError", "uncaught"}

\* what console.log printed at a source line, in order
Logged(line) == SelectSeq(log, LAMBDA e : e.line = line)
LoggedValues(line) == [i \in 1..Len(Logged(line)) |-> Logged(line)[i].args[1]]

IsPrefix(s, t) == Len(s) <= Len(t) /\ s = SubSeq(t, 1, Len(s))

\* a script-level binding whose declaration has run, and its value
Initialised(x) ==
  /\ envs # <<>>
  /\ x \in DOMAIN envs[1].b
  /\ envs[1].b[x].init
GlobalValue(x) == envs[1].b[x].val

\* the own properties of the object a script-level binding refers to
PropertiesOf(x) ==
  LET o == heap[GlobalValue(x).n]
  IN {<<o.props[i].key, o.props[i].val>> : i \in 1..Len(o.props)}

\* the objects reachable from a set of objects through property values
RECURSIVE Reachable(_, _)
Reachable(h, A) ==
  LET B == A \cup {v.n : v \in {p[2] : p \in UNION {{<<h[a].props[i].key, h[a].props[i].val>> :
                                                        i \in 1..Len(h[a].props)} : a \in A}}
                                \cap {Ref(a) : a \in 1..Len(h)}}
  IN IF B = A THEN A ELSE Reachable(h, B)

\* The scopes of the source text: the script (0) and every construct that
\* encloses statements
ScopeStarts ==
  {b \in 1..Len(prog) : prog[b].op \in {"block", "try", "function", "varfn", "setTimeout"}}
Encloses(b, i) == b = 0 \/ (b < i /\ i <= b + prog[b].n)
ScopeOf(i) ==
  CHOOSE b \in {0} \cup ScopeStarts :
    Encloses(b, i) /\ \A c \in ScopeStarts : Encloses(c, i) => c <= b
\* instruction i is the let/const declaration of x, directly in scope b
DeclaresIn(b, i, x) ==
  /\ ScopeOf(i) = b
  /\ \E k \in 1..Len(DeclaredBy(prog[i])) :
       DeclaredBy(prog[i])[k].name = x /\ DeclaredBy(prog[i])[k].kind \in {"let", "const"}
\* the scopes around the running instruction that declare x with let/const
LexicalScopes(x) ==
  {b \in {0} \cup ScopeStarts : Encloses(b, ip) /\ \E i \in 1..Len(prog) : DeclaresIn(b, i, x)}
\* where the innermost of them declares it
DeclarationIndex(x) ==
  LET b == CHOOSE c \in LexicalScopes(x) : \A d \in LexicalScopes(x) : d <= c
  IN CHOOSE i \in 1..Len(prog) : DeclaresIn(b, i, x)

\* the arguments of the console.log about to run that are plain names
NamesRead ==
  IF At("log") THEN {i \in 1..Len(Ins.args) : Ins.args[i].k = "id"} ELSE {}

\* C1: a console.log that reads a let/const name inside the name's scope
\* before the declaration statement has run prints nothing and throws the
\* ReferenceError of the temporal dead zone (to the enclosing catch), whether
\* or not an outer scope binds the name; after the declaration the read
\* yields the binding's value.
C1_TemporalDeadZone ==
  [][(At("log") /\ ip' # ip) =>
       \A i \in NamesRead :
         LET x == Ins.args[i].name
         IN LexicalScopes(x) # {} =>
              IF DeclarationIndex(x) > ip
              THEN /\ log' = log
                   /\ IF handlers = <<>> THEN phase' = "uncaught"
                      ELSE /\ envs'[cur'].b["e"].val = TDZError
                           /\ ip' = handlers[Len(handlers)].catch
              ELSE /\ Len(log') = Len(log) + 1
                   /\ log'[Len(log')].args[i]
                        = envs[ResolveBinding(envs, cur, x)].b[x].val]_vars

\* the read of x_q1 inside the block threw although the script's x_q1 is 10
C1_Witness ==
  /\ file = "019"
  /\ Logged(347) = <<>>
  /\ LoggedValues(350) = <<TDZError>>
  /\ envs[1].b["x_q1"] = Binding("let", TRUE, Num(10))

\* C2 (as stated): the run of 015_variables-practice-round-2.js prints, from
\* test_q1, undefined (line 23) and then 10 (line 25), the script's a_q1
\* being 5.
C2_TestQ1Logs ==
  (file = "015" /\ Terminated) =>
     /\ IsPrefix(<<Undef>>, LoggedValues(23))
     /\ IsPrefix(<<Num(10)>>, LoggedValues(25))
     /\ Initialised("a_q1") /\ GlobalValue("a_q1") = Num(5)

\* what the run of 015 does: it ends with nothing printed by test_q1
C2_Witness ==
  /\ file = "015"
  /\ Terminated
  /\ Logged(23) = <<>> /\ Logged(25) = <<>>

Running == {i \in 1..Len(timers) : timers[i].state = "running"}

\* C3: no timer callback starts before the script's last statement has
\* finished; at most one callback runs at a time, and one runs exactly when
\* the machine is in a callback, never while the script itself runs.
C3_NoConcurrency ==
  /\ ~completed => \A i \in 1..Len(timers) : timers[i].state = "pending"
  /\ Cardinality(Running) <= 1
  /\ (phase = "callback") <=> (Running # {})
  /\ phase \in {"callback", "idle", "done"} => completed

\* a callback is running whose timer was already due while the script was
\* still setting later timers
C3_Witness ==
  /\ phase = "callback"
  /\ \E i \in Running : \E j \in 1..Len(timers) : timers[j].start >= Expiry(i)

\* C4: in 019 the callbacks of the var loop (line 396) print 3, 3, 3 and
\* those of the let loop (line 401) print 0, 1, 2, in this order; at the end
\* all six have printed.
C4_LoopClosures ==
  file = "019" =>
    /\ IsPrefix(LoggedValues(396), <<Num(3), Num(3), Num(3)>>)
    /\ IsPrefix(LoggedValues(401), <<Num(0), Num(1), Num(2)>>)
    /\ phase = "done" => Len(Logged(396)) = 3 /\ Len(Logged(401)) = 3

C4_Witness ==
  /\ file = "019"
  /\ phase = "done"
  /\ LoggedValues(396) = <<Num(3), Num(3), Num(3)>>
  /\ LoggedValues(401) = <<Num(0), Num(1), Num(2)>>

\* the output of the timers of 015 (first copy of the questions): Q6 at line
\* 92, Q8 var at line 119, Q8 let at line 122
TimerOutput015 ==
  LET T == SelectSeq(log, LAMBDA e : e.line \in {92, 119, 122})
  IN [i \in 1..Len(T) |-> <<T[i].line, T[i].args[1]>>]

\* C5 (as stated): the run of 015 prints the three Q6 lines first and then
\* Q8 var: 3, Q8 let: 0, Q8 var: 3, Q8 let: 1, Q8 var: 3, Q8 let: 2.
C5_TimerOrder ==
  (file = "015" /\ Terminated) =>
     TimerOutput015 = << <<92, Num(3)>>, <<92, Num(3)>>, <<92, Num(3)>>,
                         <<119, Num(3)>>, <<122, Num(0)>>, <<119, Num(3)>>,
                         <<122, Num(1)>>, <<119, Num(3)>>, <<122, Num(2)>> >>

\* what the run of 015 does: it ends without a timer set or run
C5_Witness ==
  /\ file = "015"
  /\ Terminated
  /\ timers = <<>>
  /\ TimerOutput015 = <<>>

\* C6 (as stated): every script, run on its own, gets through its last
\* top-level statement: no run ends by an error before that.
C6_RunsToLastStatement == Terminated => completed

\* 015 declares arr_q2, y_q4 and obj_q10 twice at the top level: the parser
\* rejects the file and no statement of it runs
C6_Witness ==
  /\ file = "015"
  /\ phase = "SyntaxError"
  /\ ~completed
  /\ log = <<>>

\* C7 (as stated): the for...of loop over range (from 1 to 3) runs its body
\* for 1, 2 and 3.
C7_RangeInclusive ==
  (file = "013" /\ phase = "done") => LoggedValues(130) = <<Num(1), Num(2), Num(3)>>

\* the loop is over and its body ran for 1 and 2 only: the third result of
\* next() is { value: 3, done: true }
C7_Witness ==
  /\ file = "013"
  /\ phase = "done"
  /\ LoggedValues(130) = <<Num(1), Num(2)>>
  /\ next(3, 3) = [value |-> Num(3), done |-> TRUE, current |-> 4]

\* C8 (as stated): each rest object holds exactly the properties the pattern
\* did not extract by name: rest_s5 is { y: 2, z: 3 }, details is
\* { name: 'Alice', age: 25 } (019 and part_003), rest_s2 is { b: 20, c: 30 }.
C8_RestHoldsRemaining ==
  /\ (file = "part_001" /\ Initialised("rest_s5")) =>
        PropertiesOf("rest_s5") = {<<K("y"), Num(2)>>, <<K("z"), Num(3)>>}
  /\ (file = "part_001" /\ Initialised("rest_s2")) =>
        PropertiesOf("rest_s2") = {<<K("b"), Num(20)>>, <<K("c"), Num(30)>>}
  /\ (file = "019" /\ Initialised("details_d5")) =>
        PropertiesOf("details_d5") = {<<K("name"), Str("Alice")>>, <<K("age"), Num(25)>>}
  /\ (file = "part_003" /\ Initialised("rest")) =>
        PropertiesOf("rest") = {<<K("name"), Str("Alice")>>, <<K("age"), Num(25)>>}

\* the source has no property x_s5, so nothing is extracted and the rest
\* object holds x as well
C8_Witness ==
  /\ file = "part_001"
  /\ Initialised("rest_s5")
  /\ GlobalValue("x_s5") = Undef
  /\ PropertiesOf("rest_s5") = {<<K("x"), Num(1)>>, <<K("y"), Num(2)>>, <<K("z"), Num(3)>>}

\* C9 (as stated): the spread copy copy_s1 has no property under sym_s1,
\* rest_s7 is { b: 2 }, and the Object.assign copy has the symbol property.
C9_SymbolKeysSkipped ==
  file = "part_002" =>
    /\ Initialised("copy_s1") =>
          Get(heap, GlobalValue("copy_s1").n, SymKey(GlobalValue("sym_s1"))) = Undef
    /\ Initialised("rest_s7") => PropertiesOf("rest_s7") = {<<K("b"), Num(2)>>}
    /\ Initialised("copyWithSymbols_s1") =>
          Get(heap, GlobalValue("copyWithSymbols_s1").n, SymKey(GlobalValue("sym_s1")))
            = Num(42)

\* both the spread copy and the rest object hold the symbol-keyed property
C9_Witness ==
  /\ file = "part_002"
  /\ Initialised("rest_s7")
  /\ Get(heap, GlobalValue("copy_s1").n, SymKey(GlobalValue("sym_s1"))) = Num(42)
  /\ LoggedValues(24) = <<Num(42)>>
  /\ PropertiesOf("rest_s7")
       = {<<K("b"), Num(2)>>, <<SymKey(GlobalValue("sym_s7")), Str("hidden")>>}

\* a spread copy and its original: two objects, the same property values
\* (hence the same nested objects)
ShallowCopy(copy, original) ==
  (Initialised(copy) /\ Initialised(original)) =>
     /\ GlobalValue(copy) # GlobalValue(original)
     /\ \A k \in {p[1] : p \in PropertiesOf(original)} :
          Get(heap, GlobalValue(original).n, k).t = "object" =>
            Get(heap, GlobalValue(copy).n, k) = Get(heap, GlobalValue(original).n, k)

\* C10: a spread copy is another object whose nested objects are the
\* original's, so the writes copy.b.c = 99 / copy[0].x = 99 show through the
\* original (lines 20, 89, 141 print 99); an entry rebuilt by spread with
\* active: true leaves the original entry's active false; the structuredClone
\* copy shares no object with the original, whose b.c stays 99 after
\* deep2.b.c = 500 (line 26).
C10_ShallowAndDeepCopies ==
  /\ file = "part_006" =>
       /\ ShallowCopy("copy_s1", "obj_s1")
       /\ IsPrefix(LoggedValues(20), <<Num(99)>>)
       /\ Initialised("deep2") =>
            /\ Reachable(heap, {GlobalValue("deep2").n})
                  \cap Reachable(heap, {GlobalValue("obj_s1").n}) = {}
            /\ Get(heap, Get(heap, GlobalValue("obj_s1").n, K("b")).n, K("c")) = Num(99)
       /\ IsPrefix(LoggedValues(26), <<Num(99)>>)
       /\ Initialised("updated_s3") =>
            /\ Get(heap, GlobalValue("updated_s3").n, K("0"))
                  = Get(heap, GlobalValue("users_s3").n, K("0"))
            /\ Get(heap, GlobalValue("updated_s3").n, K("1"))
                  # Get(heap, GlobalValue("users_s3").n, K("1"))
            /\ Get(heap, Get(heap, GlobalValue("users_s3").n, K("1")).n, K("active"))
                  = Bool(FALSE)
            /\ Get(heap, Get(heap, GlobalValue("updated_s3").n, K("1")).n, K("active"))
                  = Bool(TRUE)
  /\ file = "part_001" =>
       /\ ShallowCopy("copy_hi", "nested_hi")
       /\ ShallowCopy("obj2_bb", "obj1_bb")
       /\ IsPrefix(LoggedValues(89), <<Num(99)>>)
       /\ IsPrefix(LoggedValues(141), <<Num(99)>>)

\* both copies were made and written through
C10_Witness ==
  /\ file = "part_006"
  /\ LoggedValues(20) = <<Num(99)>>
  /\ LoggedValues(26) = <<Num(99)>>
  /\ Get(heap, Get(heap, GlobalValue("deep2").n, K("b")).n, K("c")) = Num(500)

\* the const bindings whose declaration has run, as <<environment, name>>
ConstBindings ==
  {<<r, x>> \in UNION {{<<q, y>> : y \in DOMAIN envs[q].b} : q \in 1..Len(envs)} :
     envs[r].b[x].kind = "const" /\ envs[r].b[x].init}

\* C11: no step changes an initialised const binding; an assignment to one
\* prints nothing and throws the TypeError to the enclosing catch, past the
\* rest of the try block; a property write through a const binding to an
\* object that is not frozen gives the property the value written.
C11_ConstNeverRepointed ==
  [][/\ \A c \in ConstBindings : envs'[c[1]].b[c[2]] = envs[c[1]].b[c[2]]
     /\ (At("assign") /\ ip' # ip
           /\ <<ResolveBinding(envs, cur, Ins.name), Ins.name>> \in ConstBindings) =>
          /\ log' = log
          /\ IF handlers = <<>> THEN phase' = "uncaught"
             ELSE /\ envs'[cur'].b["e"].val = ConstAssignError
                  /\ ip' = handlers[Len(handlers)].catch
     /\ (At("setprop") /\ ip' # ip /\ Ins.obj.k = "id"
           /\ <<ResolveBinding(envs, cur, Ins.obj.name), Ins.obj.name>> \in ConstBindings) =>
          LET o == envs[ResolveBinding(envs, cur, Ins.obj.name)].b[Ins.obj.name].val
          IN (o.t = "object" /\ ~heap[o.n].frozen) =>
               Get(heap', o.n, ToPropertyKey(Eval(Ins.key, envs, cur, heap, NoLocals).v))
                 = Eval(Ins.e, envs, cur, heap, NoLocals).v]_vars

\* 019 Exercise 4: obj_ex4.lang = "Python" took effect, obj_ex4 = { lang: "C++" }
\* threw, and obj_ex4 is still the object it was declared with
C11_Witness ==
  /\ file = "019"
  /\ LoggedValues(325) = <<ConstAssignError>>
  /\ LoggedValues(55) = <<ConstAssignError>>
  /\ GlobalValue("obj_ex4") = LoggedValues(320)[1]
  /\ PropertiesOf("obj_ex4") = {<<K("lang"), Str("Python")>>}

\* C12 (as stated): the run of 015 prints at Q10.2 (line 151) the object it
\* printed at Q10.1 (line 148), whose name is still 'JavaScript' after the
\* write to the frozen object.
C12_FrozenWriteIsDropped ==
  (file = "015" /\ Terminated) =>
     /\ Len(Logged(148)) >= 1 /\ Len(Logged(151)) >= 1
     /\ LoggedValues(151)[1] = LoggedValues(148)[1]
     /\ PropertiesOf("obj_q10") = {<<K("name"), Str("JavaScript")>>}

\* what the run of 015 does: it ends with no object made, frozen or printed
C12_Witness ==
  /\ file = "015"
  /\ Terminated
  /\ heap = <<>>
  /\ Logged(148) = <<>> /\ Logged(151) = <<>>

\* C13: loose equality converts its operands - a boolean to a number, an array
\* to its string and then to a number - so [] == false, [] == 0, [null] == 0,
\* [0] == false, "0" == false and [] == ![] are logged as true and [] == true
\* as false, while === between operands of different types is logged as false.
LooseEqualityLines ==
  [file016 |-> [true |-> {135, 136, 137, 138, 157, 158, 159, 168, 202}, false |-> {129, 169}],
   part005 |-> [true |-> {299, 308, 361}, false |-> {307, 353}]]

C13_LooseEqualityCoerces ==
  LET lines == IF file = "016" THEN LooseEqualityLines.file016 ELSE LooseEqualityLines.part005
  IN (file \in {"016", "part_005"}) =>
       /\ \A l \in lines.true : IsPrefix(LoggedValues(l), <<Bool(TRUE)>>)
       /\ \A l \in lines.false : IsPrefix(LoggedValues(l), <<Bool(FALSE)>>)
       /\ Terminated => \A l \in lines.true \cup lines.false : Len(Logged(l)) = 1
       /\ \A i \in 1..Len(prog) :
            (prog[i].op = "log" /\ prog[i].args[1].k = "bin" /\ prog[i].args[1].op = "===") =>
              IsPrefix(LoggedValues(prog[i].line), <<Bool(FALSE)>>)

C13_Witness ==
  /\ file = "016" /\ phase = "done"
  /\ LoggedValues(138) = <<Bool(TRUE)>> /\ LoggedValues(159) = <<Bool(TRUE)>>
  /\ LoggedValues(202) = <<Bool(TRUE)>> /\ LoggedValues(169) = <<Bool(FALSE)>>

\* C14: == never converts null to a number, the relational operators convert it
\* to 0: null == 0 is logged as false, null < 0 as false, null <= 0 and
\* null >= 0 as true; null == undefined (and undefined == null) is logged as
\* true and null == false as false.
NullLines ==
  [file012 |-> [true |-> {77, 82, 108}, false |-> {67, 72, 109}],
   file011 |-> [true |-> {79}, false |-> {80}]]

C14_NullComparisons ==
  LET lines == IF file = "012" THEN NullLines.file012 ELSE NullLines.file011
  IN (file \in {"012", "011"}) =>
       /\ \A l \in lines.true : IsPrefix(LoggedValues(l), <<Bool(TRUE)>>)
       /\ \A l \in lines.false : IsPrefix(LoggedValues(l), <<Bool(FALSE)>>)
       /\ Terminated => \A l \in lines.true \cup lines.false : Len(Logged(l)) = 1

C14_Witness ==
  /\ file = "012" /\ phase = "done"
  /\ LoggedValues(67) = <<Bool(FALSE)>> /\ LoggedValues(72) = <<Bool(FALSE)>>
  /\ LoggedValues(77) = <<Bool(TRUE)>> /\ LoggedValues(82) = <<Bool(TRUE)>>
  /\ LoggedValues(108) = <<Bool(TRUE)>> /\ LoggedValues(109) = <<Bool(FALSE)>>

====
